---- MODULE Spec2Model ----
(***************************************************************************)
(* Model of the LangGraph financial-analysis pipeline                      *)
(* (src/app/core/workflow.py) together with the evaluator and the insight  *)
(* generator it calls (src/app/agents/evaluator.py, insights.py).          *)
(*                                                                         *)
(* A Python dict is a TLA+ record; "key in dict" is membership in the      *)
(* record's DOMAIN.  Python's None is the record None below; an optional   *)
(* number is <<>> (None) or <<v>>.                                         *)
(*                                                                         *)
(* Numbers: component scores, sentiment, margins and confidence are in     *)
(* hundredths (50 is 0.5); the weighted overall score is in                *)
(* ten-thousandths (7000 is 0.70).  The arithmetic is exact decimal        *)
(* arithmetic; the last-bit rounding of Python floats is not modelled.     *)
(***************************************************************************)
EXTENDS Integers, Sequences, FiniteSets, TLC

VARIABLES state, pc, trace, result, api, records, runs

vars == <<state, pc, trace, result, api, records, runs>>

(***************************************************************************)
(* Python helpers                                                          *)
(***************************************************************************)
None == [null |-> TRUE]

\* dict.get(key, default)
Get(d, k, default) == IF k \in DOMAIN d THEN d[k] ELSE default

\* max(0.0, min(1.0, x)) in hundredths
Min(a, b) == IF a < b THEN a ELSE b
Max(a, b) == IF a > b THEN a ELSE b
Clamp01(x) == Max(0, Min(100, x))

\* d[k] = v on a dict that may or may not have the key
SetKey(d, k, v) == [x \in (DOMAIN d) \cup {k} |-> IF x = k THEN v ELSE d[x]]

(***************************************************************************)
(* Inputs: what the external collaborators may return                      *)
(***************************************************************************)
Symbols == {"AAPL"}

\* market fundamentals: a failure marker, a cheap high-margin stock, an
\* expensive one with no margin reported
MarketDataResults ==
    {[error |-> "Market data fetch failed"],
     [agent |-> "Market Data Expert", pe_ratio |-> <<10>>, profit_margin |-> <<30>>],
     [agent |-> "Market Data Expert", pe_ratio |-> <<40>>, profit_margin |-> <<>>]}

TechnicalResults ==
    {[error |-> "No historical data"],
     [agent |-> "Technical Expert", trend |-> "strong_uptrend", rsi |-> 50],
     [agent |-> "Technical Expert", trend |-> "downtrend", rsi |-> 80]}

QuantitativeResults ==
    {[error |-> "Insufficient data"],
     [agent |-> "Quantitative Expert", risk_level |-> "Medium"]}

\* the aggregate score is whatever number the agent reports; 300 is a score
\* of 3.0, outside [0,1]
SentimentResults ==
    {[error |-> "Sentiment analysis failed"],
     [agent |-> "Sentiment Expert", sentiment_score |-> 70],
     [agent |-> "Sentiment Expert", sentiment_score |-> 30],
     [agent |-> "Sentiment Expert", sentiment_score |-> 300]}

SectorResults ==
    {[error |-> "Sector analysis failed"],
     [agent |-> "Sector Expert", sector |-> "Technology"]}

ForecastResults ==
    {[error |-> "Prophet not available", message |-> "Install prophet: pip install prophet"],
     [agent |-> "Prophet Forecast Expert", expected_change_percent |-> 10, confidence_score |-> 70],
     [agent |-> "Prophet Forecast Expert", expected_change_percent |-> -10, confidence_score |-> 70],
     [agent |-> "Prophet Forecast Expert", expected_change_percent |-> 10, confidence_score |-> 60]}

(***************************************************************************)
(* The Run Record                                                          *)
(***************************************************************************)
initial_state(symbol) ==
    [symbol |-> symbol,
     company_name |-> "",
     market_data |-> None,
     technical_analysis |-> None,
     quantitative_analysis |-> None,
     sentiment_analysis |-> None,
     sector_analysis |-> None,
     forecast_analysis |-> None,
     synthesis |-> None,
     recommendation |-> None,
     evaluation |-> None,
     needs_improvement |-> FALSE,
     improvement_areas |-> <<>>,
     workflow_stage |-> "initialized",
     errors |-> <<>>,
     quality_score |-> 0]

\* state['errors'].append(f"<Stage>: {result['error']}") when the result has an 'error' key
RecordError(errors, tag, res) ==
    IF "error" \in DOMAIN res
    THEN Append(errors, [stage |-> tag, message |-> res.error])
    ELSE errors

(***************************************************************************)
(* The six producer nodes                                                  *)
(***************************************************************************)
\* variant: a failed fetch is logged but its marker is not stored in the slot
market_data_node_dropping_failure(st, res) ==
    IF "error" \in DOMAIN res
    THEN [st EXCEPT !.workflow_stage = "market_data_complete",
                    !.errors = RecordError(st.errors, "Market Data", res)]
    ELSE [st EXCEPT !.market_data = res,
                    !.workflow_stage = "market_data_complete"]

market_data_node(st, res) ==
    [st EXCEPT !.market_data = res,
               !.workflow_stage = "market_data_complete",
               !.errors = RecordError(st.errors, "Market Data", res)]

\* variant: the failure is logged under the previous stage's tag
technical_analysis_node_wrong_tag(st, res) ==
    [st EXCEPT !.technical_analysis = res,
               !.workflow_stage = "technical_complete",
               !.errors = RecordError(st.errors, "Market Data", res)]

technical_analysis_node(st, res) ==
    [st EXCEPT !.technical_analysis = res,
               !.workflow_stage = "technical_complete",
               !.errors = RecordError(st.errors, "Technical", res)]

quantitative_analysis_node(st, res) ==
    [st EXCEPT !.quantitative_analysis = res,
               !.workflow_stage = "quantitative_complete",
               !.errors = RecordError(st.errors, "Quantitative", res)]

sentiment_analysis_node(st, res) ==
    [st EXCEPT !.sentiment_analysis = res,
               !.workflow_stage = "sentiment_complete",
               !.errors = RecordError(st.errors, "Sentiment", res)]

sector_analysis_node(st, res) ==
    [st EXCEPT !.sector_analysis = res,
               !.workflow_stage = "sector_complete",
               !.errors = RecordError(st.errors, "Sector", res)]

forecast_analysis_node(st, res) ==
    [st EXCEPT !.forecast_analysis = res,
               !.workflow_stage = "forecast_complete",
               !.errors = RecordError(st.errors, "Forecast", res)]

(***************************************************************************)
(* synthesis_node                                                          *)
(***************************************************************************)
BaselineScore == 50

\* a domain's contribution: a score and the narrative entries it appends
NoEntries == [strengths |-> <<>>, weaknesses |-> <<>>, risk_factors |-> <<>>]

\* 'uptrend' in trend / 'downtrend' in trend, on the trend names the
\* technical agent produces
HasUptrend(trend) == trend \in {"uptrend", "strong_uptrend"}
HasDowntrend(trend) == trend \in {"downtrend", "strong_downtrend"}

\* "x and x > bound" on an optional number: None and 0 are falsy
TruthyAbove(opt, bound) == Len(opt) = 1 /\ opt[1] # 0 /\ opt[1] > bound

\* variant: a failed fetch scores zero instead of the baseline
SynthMarketFailedIsZero(market_data) ==
    IF "error" \in DOMAIN market_data
    THEN [score |-> 0] @@ NoEntries
    ELSE LET pe == Get(market_data, "pe_ratio", <<>>)
             pm == Get(market_data, "profit_margin", <<>>)
             cheap == TruthyAbove(pe, 0) /\ pe[1] < 15
             dear == TruthyAbove(pe, 0) /\ ~(pe[1] < 15) /\ pe[1] > 30
             margin == TruthyAbove(pm, 20)
         IN [score |-> BaselineScore
                        + (IF cheap THEN 20 ELSE 0)
                        - (IF dear THEN 20 ELSE 0)
                        + (IF margin THEN 10 ELSE 0),
             strengths |-> (IF cheap THEN <<"Attractive P/E ratio">> ELSE <<>>)
                           \o (IF margin THEN <<"High profit margin">> ELSE <<>>),
             weaknesses |-> <<>>,
             risk_factors |-> IF dear THEN <<"High P/E ratio">> ELSE <<>>]

\* variant: a high P/E ratio is listed as a risk but costs no score
SynthMarketNoPenalty(market_data) ==
    IF "error" \in DOMAIN market_data
    THEN [score |-> BaselineScore] @@ NoEntries
    ELSE LET pe == Get(market_data, "pe_ratio", <<>>)
             pm == Get(market_data, "profit_margin", <<>>)
             cheap == TruthyAbove(pe, 0) /\ pe[1] < 15
             dear == TruthyAbove(pe, 0) /\ ~(pe[1] < 15) /\ pe[1] > 30
             margin == TruthyAbove(pm, 20)
         IN [score |-> BaselineScore
                        + (IF cheap THEN 20 ELSE 0)
                        + (IF margin THEN 10 ELSE 0),
             strengths |-> (IF cheap THEN <<"Attractive P/E ratio">> ELSE <<>>)
                           \o (IF margin THEN <<"High profit margin">> ELSE <<>>),
             weaknesses |-> <<>>,
             risk_factors |-> IF dear THEN <<"High P/E ratio">> ELSE <<>>]

SynthMarket(market_data) ==
    IF "error" \in DOMAIN market_data
    THEN [score |-> BaselineScore] @@ NoEntries
    ELSE LET pe == Get(market_data, "pe_ratio", <<>>)
             pm == Get(market_data, "profit_margin", <<>>)
             cheap == TruthyAbove(pe, 0) /\ pe[1] < 15
             dear == TruthyAbove(pe, 0) /\ ~(pe[1] < 15) /\ pe[1] > 30
             margin == TruthyAbove(pm, 20)
         IN [score |-> BaselineScore
                        + (IF cheap THEN 20 ELSE 0)
                        - (IF dear THEN 20 ELSE 0)
                        + (IF margin THEN 10 ELSE 0),
             strengths |-> (IF cheap THEN <<"Attractive P/E ratio">> ELSE <<>>)
                           \o (IF margin THEN <<"High profit margin">> ELSE <<>>),
             weaknesses |-> <<>>,
             risk_factors |-> IF dear THEN <<"High P/E ratio">> ELSE <<>>]

\* variant: a bearish trend is listed as a risk factor too
SynthTechnicalDowntrendIsRisk(technical) ==
    IF "error" \in DOMAIN technical
    THEN [score |-> BaselineScore] @@ NoEntries
    ELSE LET trend == Get(technical, "trend", "neutral")
             rsi == Get(technical, "rsi", 50)
             up == HasUptrend(trend)
             down == ~up /\ HasDowntrend(trend)
         IN [score |-> BaselineScore + (IF up THEN 25 ELSE 0) - (IF down THEN 25 ELSE 0),
             strengths |-> (IF up THEN <<"Bullish trend">> ELSE <<>>)
                           \o (IF rsi < 30 THEN <<"RSI oversold - potential buy">> ELSE <<>>),
             weaknesses |-> IF down THEN <<"Bearish trend">> ELSE <<>>,
             risk_factors |-> (IF down THEN <<"Bearish trend">> ELSE <<>>)
                              \o (IF ~(rsi < 30) /\ rsi > 70
                                  THEN <<"RSI overbought">> ELSE <<>>)]

SynthTechnical(technical) ==
    IF "error" \in DOMAIN technical
    THEN [score |-> BaselineScore] @@ NoEntries
    ELSE LET trend == Get(technical, "trend", "neutral")
             rsi == Get(technical, "rsi", 50)
             up == HasUptrend(trend)
             down == ~up /\ HasDowntrend(trend)
         IN [score |-> BaselineScore + (IF up THEN 25 ELSE 0) - (IF down THEN 25 ELSE 0),
             strengths |-> (IF up THEN <<"Bullish trend">> ELSE <<>>)
                           \o (IF rsi < 30 THEN <<"RSI oversold - potential buy">> ELSE <<>>),
             weaknesses |-> IF down THEN <<"Bearish trend">> ELSE <<>>,
             risk_factors |-> IF ~(rsi < 30) /\ rsi > 70 THEN <<"RSI overbought">> ELSE <<>>]

\* variant: the score is read whether or not the slot carries a failure marker
SynthSentimentReadingFailed(sentiment) ==
    LET sentiment_score == Get(sentiment, "sentiment_score", 50)
    IN [score |-> sentiment_score,
        strengths |-> IF sentiment_score > 60
                      THEN <<"Positive market sentiment">> ELSE <<>>,
        weaknesses |-> <<>>,
        risk_factors |-> IF ~(sentiment_score > 60) /\ sentiment_score < 40
                         THEN <<"Negative market sentiment">> ELSE <<>>]

SynthSentiment(sentiment) ==
    IF "error" \in DOMAIN sentiment
    THEN [score |-> BaselineScore] @@ NoEntries
    ELSE LET sentiment_score == Get(sentiment, "sentiment_score", 50)
         IN [score |-> sentiment_score,
             strengths |-> IF sentiment_score > 60
                           THEN <<"Positive market sentiment">> ELSE <<>>,
             weaknesses |-> <<>>,
             risk_factors |-> IF ~(sentiment_score > 60) /\ sentiment_score < 40
                              THEN <<"Negative market sentiment">> ELSE <<>>]

\* variant: a confidence of exactly 0.6 is enough
SynthForecastInclusive(forecast) ==
    IF "error" \in DOMAIN forecast
    THEN [score |-> BaselineScore] @@ NoEntries
    ELSE LET expected_change == Get(forecast, "expected_change_percent", 0)
             confidence == Get(forecast, "confidence_score", 0)
             bull == expected_change > 5 /\ confidence >= 60
             bear == ~bull /\ expected_change < -5 /\ confidence >= 60
         IN [score |-> IF bull THEN 80 ELSE IF bear THEN 20 ELSE 50,
             strengths |-> IF bull THEN <<"Strong forecast">> ELSE <<>>,
             weaknesses |-> <<>>,
             risk_factors |-> IF bear THEN <<"Bearish forecast">> ELSE <<>>]

SynthForecast(forecast) ==
    IF "error" \in DOMAIN forecast
    THEN [score |-> BaselineScore] @@ NoEntries
    ELSE LET expected_change == Get(forecast, "expected_change_percent", 0)
             confidence == Get(forecast, "confidence_score", 0)
             bull == expected_change > 5 /\ confidence > 60
             bear == ~bull /\ expected_change < -5 /\ confidence > 60
         IN [score |-> IF bull THEN 80 ELSE IF bear THEN 20 ELSE 50,
             strengths |-> IF bull THEN <<"Strong forecast">> ELSE <<>>,
             weaknesses |-> <<>>,
             risk_factors |-> IF bear THEN <<"Bearish forecast">> ELSE <<>>]

\* synthesis_node tests "'error' not in slot" on each of the four slots it
\* reads: on a slot still holding None that test raises TypeError
synthesis_raises(st) ==
    \E slot \in {"market_data", "technical_analysis", "sentiment_analysis",
                 "forecast_analysis"} : st[slot] = None

\* variant: a quantitative slot that succeeded adds its risk level to the risk factors
synthesis_node_reading_quantitative(st) ==
    LET m == SynthMarket(st.market_data)
        t == SynthTechnical(st.technical_analysis)
        s == SynthSentiment(st.sentiment_analysis)
        f == SynthForecast(st.forecast_analysis)
        q == IF "error" \in DOMAIN st.quantitative_analysis
             THEN <<>> ELSE <<"Quantitative risk">>
        synthesis ==
            [fundamental_score |-> Clamp01(m.score),
             technical_score |-> Clamp01(t.score),
             sentiment_score |-> s.score,
             forecast_score |-> f.score,
             strengths |-> m.strengths \o t.strengths \o s.strengths \o f.strengths,
             weaknesses |-> m.weaknesses \o t.weaknesses \o s.weaknesses \o f.weaknesses,
             risk_factors |-> m.risk_factors \o t.risk_factors \o s.risk_factors
                              \o f.risk_factors \o q]
    IN [st EXCEPT !.synthesis = synthesis,
                  !.workflow_stage = "synthesis_complete"]

synthesis_node(st) ==
    LET m == SynthMarket(st.market_data)
        t == SynthTechnical(st.technical_analysis)
        s == SynthSentiment(st.sentiment_analysis)
        f == SynthForecast(st.forecast_analysis)
        synthesis ==
            [fundamental_score |-> Clamp01(m.score),
             technical_score |-> Clamp01(t.score),
             sentiment_score |-> s.score,
             forecast_score |-> f.score,
             strengths |-> m.strengths \o t.strengths \o s.strengths \o f.strengths,
             weaknesses |-> m.weaknesses \o t.weaknesses \o s.weaknesses \o f.weaknesses,
             risk_factors |-> m.risk_factors \o t.risk_factors \o s.risk_factors
                              \o f.risk_factors]
    IN [st EXCEPT !.synthesis = synthesis,
                  !.workflow_stage = "synthesis_complete"]

(***************************************************************************)
(* recommendation_node                                                     *)
(***************************************************************************)
WeightFundamental == 30
WeightTechnical == 25
WeightSentiment == 15
WeightForecast == 30

OverallScore(synthesis) ==
    Get(synthesis, "fundamental_score", 50) * WeightFundamental
    + Get(synthesis, "technical_score", 50) * WeightTechnical
    + Get(synthesis, "sentiment_score", 50) * WeightSentiment
    + Get(synthesis, "forecast_score", 50) * WeightForecast

\* variant: the thresholds are inclusive
RecommendationClassInclusive(overall_score) ==
    IF overall_score >= 7000 THEN "STRONG BUY"
    ELSE IF overall_score >= 6000 THEN "BUY"
    ELSE IF overall_score >= 4500 THEN "HOLD"
    ELSE IF overall_score >= 3500 THEN "SELL"
    ELSE "STRONG SELL"

RecommendationClass(overall_score) ==
    IF overall_score > 7000 THEN "STRONG BUY"
    ELSE IF overall_score > 6000 THEN "BUY"
    ELSE IF overall_score > 4500 THEN "HOLD"
    ELSE IF overall_score > 3500 THEN "SELL"
    ELSE "STRONG SELL"

Rationale(recommendation) ==
    CASE recommendation = "STRONG BUY" ->
           "Exceptional performance across all indicators with strong fundamentals and positive forecast"
      [] recommendation = "BUY" ->
           "Strong overall performance with favorable fundamentals and technical signals"
      [] recommendation = "HOLD" ->
           "Mixed signals suggest maintaining current position"
      [] recommendation = "SELL" ->
           "Weakness across indicators suggests reducing exposure"
      [] OTHER ->
           "Multiple negative indicators and significant risks"

\* variant: the counts are compared strictly
RiskLevelStrict(risk_count) ==
    IF risk_count > 5 THEN "VERY HIGH"
    ELSE IF risk_count > 3 THEN "HIGH"
    ELSE IF risk_count > 1 THEN "MEDIUM"
    ELSE "LOW"

RiskLevel(risk_count) ==
    IF risk_count >= 5 THEN "VERY HIGH"
    ELSE IF risk_count >= 3 THEN "HIGH"
    ELSE IF risk_count >= 1 THEN "MEDIUM"
    ELSE "LOW"

\* variant: the risk level is not consulted
InvestmentHorizonIgnoringRisk(overall_score, risk_level) ==
    IF overall_score > 6500
    THEN "Long-term (1+ years)"
    ELSE IF overall_score > 5000 THEN "Medium-term (3-12 months)"
    ELSE "Short-term or avoid"

InvestmentHorizon(overall_score, risk_level) ==
    IF overall_score > 6500 /\ risk_level \in {"LOW", "MEDIUM"}
    THEN "Long-term (1+ years)"
    ELSE IF overall_score > 5000 THEN "Medium-term (3-12 months)"
    ELSE "Short-term or avoid"

\* GeminiInsightsGenerator: gem.available is Config.configure_gemini(),
\* gem.model_ok whether GenerativeModel(...) was built, gem.outcome what
\* generate_content does
GeminiInputs == [available : BOOLEAN, model_ok : BOOLEAN, outcome : {"text", "raise"}]

\* variant: a generator whose model could not be built still counts as available
GeminiAvailableIgnoringModel(gem) == gem.available

GeminiAvailable(gem) == gem.available /\ gem.model_ok

generate_insights(gem) ==
    IF ~GeminiAvailable(gem)
    THEN "Gemini insights not available - API key not configured"
    ELSE IF gem.outcome = "raise"
         THEN "Insights generation failed: <exception>"
         ELSE "<response.text>"

\* synthesis.get(...) on a synthesis still holding None raises AttributeError
recommendation_raises(st) == st.synthesis = None

recommendation_node(st, gem) ==
    LET synthesis == st.synthesis
        overall_score == OverallScore(synthesis)
        recommendation == RecommendationClass(overall_score)
        risk_level == RiskLevel(Len(Get(synthesis, "risk_factors", <<>>)))
        gemini_insights == IF GeminiAvailable(gem) THEN generate_insights(gem) ELSE ""
    IN [st EXCEPT
          !.recommendation =
              [recommendation |-> recommendation,
               overall_score |-> overall_score,
               rationale |-> Rationale(recommendation),
               risk_level |-> risk_level,
               investment_horizon |-> InvestmentHorizon(overall_score, risk_level),
               strengths |-> Get(synthesis, "strengths", <<>>),
               weaknesses |-> Get(synthesis, "weaknesses", <<>>),
               risk_factors |-> Get(synthesis, "risk_factors", <<>>),
               component_scores |->
                   [fundamental |-> Get(synthesis, "fundamental_score", 50),
                    technical |-> Get(synthesis, "technical_score", 50),
                    sentiment |-> Get(synthesis, "sentiment_score", 50),
                    forecast |-> Get(synthesis, "forecast_score", 50)],
               ai_insights |-> gemini_insights],
          !.workflow_stage = "recommendation_complete"]

(***************************************************************************)
(* OpenAIEvaluator and evaluation_node                                     *)
(***************************************************************************)
\* the JSON objects the language model may answer with; <<>> is {}
EvaluatorObjects ==
    {[quality_score |-> 85, needs_improvement |-> FALSE, improvement_areas |-> <<>>,
      strengths |-> <<"comprehensive data">>, explanation |-> "brief explanation"],
     [quality_score |-> 40, needs_improvement |-> TRUE,
      improvement_areas |-> <<"data coverage", "forecast confidence">>],
     [quality_score |-> 150, needs_improvement |-> TRUE],
     <<>>}

\* how the answer text wraps the object: parses as it is, sits in a markdown
\* code block, is embedded in prose, or holds no parsable object at all
ResponseForms == {"plain", "fenced", "embedded", "garbage"}

\* an evaluator run: is the LLM configured, does the call raise, and what
\* text comes back
EvaluatorInputs ==
    [available : {FALSE}, raises : {FALSE}, form : {"plain"}, object : {<<>>}]
    \cup [available : {TRUE}, raises : {TRUE}, form : {"plain"}, object : {<<>>}]
    \cup [available : {TRUE}, raises : {FALSE}, form : ResponseForms,
          object : EvaluatorObjects]

\* variant: an answer that cannot be parsed asks for improvement
ExtractJsonFallbackImproving ==
    [quality_score |-> 50, needs_improvement |-> TRUE, improvement_areas |-> <<>>,
     strengths |-> <<>>, explanation |-> "Failed to parse evaluation response"]

ExtractJsonFallback ==
    [quality_score |-> 50, needs_improvement |-> FALSE, improvement_areas |-> <<>>,
     strengths |-> <<>>, explanation |-> "Failed to parse evaluation response"]

extract_json(form, object) ==
    IF form \in {"plain", "fenced", "embedded"} THEN object ELSE ExtractJsonFallback

evaluate(ev) ==
    IF ~ev.available
    THEN [available |-> FALSE,
          message |-> "OpenAI API key not configured",
          quality_score |-> 50,
          needs_improvement |-> FALSE,
          improvement_areas |-> <<>>]
    ELSE IF ev.raises
    THEN [available |-> FALSE,
          error |-> "<exception>",
          quality_score |-> 50,
          needs_improvement |-> FALSE,
          improvement_areas |-> <<>>]
    ELSE LET res == extract_json(ev.form, ev.object)
         IN [available |-> TRUE,
             evaluator |-> "OpenAI GPT-4",
             quality_score |-> Get(res, "quality_score", 50),
             needs_improvement |-> Get(res, "needs_improvement", FALSE),
             improvement_areas |-> Get(res, "improvement_areas", <<>>),
             strengths |-> Get(res, "strengths", <<>>),
             explanation |-> Get(res, "explanation", "")]

\* variant: the list of areas is not copied to the top level
evaluation_node_not_copying_areas(st, ev) ==
    LET evaluation == evaluate(ev)
    IN [st EXCEPT !.evaluation = evaluation,
                  !.quality_score = Get(evaluation, "quality_score", 50),
                  !.needs_improvement = Get(evaluation, "needs_improvement", FALSE),
                  !.workflow_stage = "evaluation_complete"]

\* variant: the evaluation stage empties the errors list
evaluation_node_clearing_errors(st, ev) ==
    LET evaluation == evaluate(ev)
    IN [st EXCEPT !.evaluation = evaluation,
                  !.quality_score = Get(evaluation, "quality_score", 50),
                  !.needs_improvement = Get(evaluation, "needs_improvement", FALSE),
                  !.improvement_areas = Get(evaluation, "improvement_areas", <<>>),
                  !.errors = <<>>,
                  !.workflow_stage = "evaluation_complete"]

evaluation_node(st, ev) ==
    LET evaluation == evaluate(ev)
    IN [st EXCEPT !.evaluation = evaluation,
                  !.quality_score = Get(evaluation, "quality_score", 50),
                  !.needs_improvement = Get(evaluation, "needs_improvement", FALSE),
                  !.improvement_areas = Get(evaluation, "improvement_areas", <<>>),
                  !.workflow_stage = "evaluation_complete"]

\* variant: the verdict is ignored
should_improve_never(st) == "complete"

should_improve(st) ==
    IF Get(st, "needs_improvement", FALSE) THEN "improve" ELSE "complete"

\* variant: the flag is set but the list of areas is not attached
improvement_node_dropping_areas(st) ==
    [st EXCEPT !.recommendation =
                   SetKey(SetKey(st.recommendation, "improved", TRUE),
                          "improvement_areas_addressed", <<>>),
               !.workflow_stage = "improvement_complete"]

\* variant: the annotation is made but the stage marker is not advanced
improvement_node_keeps_stage(st) ==
    LET improvement_areas == Get(st, "improvement_areas", <<>>)
    IN [st EXCEPT !.recommendation =
                      SetKey(SetKey(st.recommendation, "improved", TRUE),
                             "improvement_areas_addressed", improvement_areas)]

improvement_node(st) ==
    LET improvement_areas == Get(st, "improvement_areas", <<>>)
        annotated ==
            IF "recommendation" \in DOMAIN st /\ st.recommendation # None
            THEN SetKey(SetKey(st.recommendation, "improved", TRUE),
                        "improvement_areas_addressed", improvement_areas)
            ELSE st.recommendation
    IN [st EXCEPT !.recommendation = annotated,
                  !.workflow_stage = "improvement_complete"]

(***************************************************************************)
(* create_analysis_workflow: the graph                                     *)
(***************************************************************************)
END == "__end__"

EntryPoint == "market_data"

Nodes == {"market_data", "technical", "quantitative", "sentiment", "sector",
          "forecast", "synthesis", "recommendation", "evaluation", "improvement"}

\* variant: the edge out of improvement leads back to synthesis
EdgeLoopingBack(node) ==
    CASE node = "market_data" -> "technical"
      [] node = "technical" -> "quantitative"
      [] node = "quantitative" -> "sentiment"
      [] node = "sentiment" -> "sector"
      [] node = "sector" -> "forecast"
      [] node = "forecast" -> "synthesis"
      [] node = "synthesis" -> "recommendation"
      [] node = "recommendation" -> "evaluation"
      [] node = "improvement" -> "synthesis"

\* variant: the edge out of sentiment goes to forecast, passing over sector
EdgeSkippingSector(node) ==
    CASE node = "market_data" -> "technical"
      [] node = "technical" -> "quantitative"
      [] node = "quantitative" -> "sentiment"
      [] node = "sentiment" -> "forecast"
      [] node = "sector" -> "forecast"
      [] node = "forecast" -> "synthesis"
      [] node = "synthesis" -> "recommendation"
      [] node = "recommendation" -> "evaluation"
      [] node = "improvement" -> END

\* workflow.add_edge(a, b)
Edge(node) ==
    CASE node = "market_data" -> "technical"
      [] node = "technical" -> "quantitative"
      [] node = "quantitative" -> "sentiment"
      [] node = "sentiment" -> "sector"
      [] node = "sector" -> "forecast"
      [] node = "forecast" -> "synthesis"
      [] node = "synthesis" -> "recommendation"
      [] node = "recommendation" -> "evaluation"
      [] node = "improvement" -> END

\* workflow.add_conditional_edges("evaluation", should_improve, {...})
ConditionalEdge(st) ==
    IF should_improve(st) = "improve" THEN "improvement" ELSE END

(***************************************************************************)
(* analyze_stock                                                           *)
(***************************************************************************)
\* no request has been handled yet
NoRequest == None

NoResult == None

FullReport(symbol, final_state) ==
    [symbol |-> symbol,
     workflow_type |-> "langgraph",
     market_data |-> final_state.market_data,
     technical_analysis |-> final_state.technical_analysis,
     quantitative_analysis |-> final_state.quantitative_analysis,
     sentiment_analysis |-> final_state.sentiment_analysis,
     sector_analysis |-> final_state.sector_analysis,
     forecast_analysis |-> final_state.forecast_analysis,
     synthesis |-> final_state.synthesis,
     recommendation |-> final_state.recommendation,
     evaluation |-> final_state.evaluation,
     quality_score |-> Get(final_state, "quality_score", 0),
     needs_improvement |-> Get(final_state, "needs_improvement", FALSE),
     improvement_areas |-> Get(final_state, "improvement_areas", <<>>),
     errors |-> Get(final_state, "errors", <<>>),
     metadata |-> [workflow_stage |-> Get(final_state, "workflow_stage", "unknown")]]

\* variant: the error report also hands out the (empty) errors list
ErrorReportWithErrors(symbol) ==
    [error |-> "<exception>", symbol |-> symbol, timestamp |-> "<now>",
     errors |-> <<>>]

ErrorReport(symbol) ==
    [error |-> "<exception>", symbol |-> symbol, timestamp |-> "<now>"]

(***************************************************************************)
(* The pipeline as a state machine.  pc is the node about to run, END once *)
(* the graph has finished, "returned" once analyze_stock has returned;     *)
(* trace is the history of the nodes that have run.                        *)
(***************************************************************************)
Init ==
    /\ state \in {initial_state(symbol) : symbol \in Symbols}
    /\ pc = EntryPoint
    /\ trace = <<>>
    /\ result = NoResult
    /\ api = NoRequest
    /\ records = <<>>
    /\ runs = <<>>

RunNode(node, newState, next) ==
    /\ pc = node
    /\ state' = newState
    /\ trace' = Append(trace, node)
    /\ pc' = next
    /\ UNCHANGED <<result, api, records, runs>>

MarketData ==
    \E res \in MarketDataResults :
        RunNode("market_data", market_data_node(state, res), Edge("market_data"))

Technical ==
    \E res \in TechnicalResults :
        RunNode("technical", technical_analysis_node(state, res), Edge("technical"))

Quantitative ==
    \E res \in QuantitativeResults :
        RunNode("quantitative", quantitative_analysis_node(state, res), Edge("quantitative"))

Sentiment ==
    \E res \in SentimentResults :
        RunNode("sentiment", sentiment_analysis_node(state, res), Edge("sentiment"))

Sector ==
    \E res \in SectorResults :
        RunNode("sector", sector_analysis_node(state, res), Edge("sector"))

Forecast ==
    \E res \in ForecastResults :
        RunNode("forecast", forecast_analysis_node(state, res), Edge("forecast"))

Synthesis ==
    /\ ~synthesis_raises(state)
    /\ RunNode("synthesis", synthesis_node(state), Edge("synthesis"))

Recommendation ==
    \E gem \in GeminiInputs :
        /\ ~recommendation_raises(state)
        /\ RunNode("recommendation", recommendation_node(state, gem), Edge("recommendation"))

Evaluation ==
    \E ev \in EvaluatorInputs :
        LET newState == evaluation_node(state, ev)
        IN RunNode("evaluation", newState, ConditionalEdge(newState))

Improvement ==
    RunNode("improvement", improvement_node(state), Edge("improvement"))

\* app.invoke returned: build and return the full report
ReturnReport ==
    /\ pc = END
    /\ result' = FullReport(state.symbol, state)
    /\ pc' = "returned"
    /\ UNCHANGED <<state, trace, api, records, runs>>

\* an exception anywhere inside the try block: the except clause returns the
\* error report
AnalysisFailed ==
    /\ pc \in Nodes \cup {END}
    /\ result' = ErrorReport(state.symbol)
    /\ pc' = "returned"
    /\ UNCHANGED <<state, trace, api, records, runs>>

\* a step of the graph or the normal return: everything but the except clause
NormalStep ==
    \/ MarketData
    \/ Technical
    \/ Quantitative
    \/ Sentiment
    \/ Sector
    \/ Forecast
    \/ Synthesis
    \/ Recommendation
    \/ Evaluation
    \/ Improvement
    \/ ReturnReport

Next ==
    \/ MarketData
    \/ Technical
    \/ Quantitative
    \/ Sentiment
    \/ Sector
    \/ Forecast
    \/ Synthesis
    \/ Recommendation
    \/ Evaluation
    \/ Improvement
    \/ ReturnReport
    \/ AnalysisFailed

Spec == Init /\ [][Next]_vars

\* every call returns sooner or later: a run does not stop half-way
FairSpec == Spec /\ WF_vars(NormalStep)

(***************************************************************************)
(* recommendation_node as a function of the scorecard: the scorecard is    *)
(* drawn from a bounded set and the node is applied to it.                 *)
(***************************************************************************)
MaxRiskFactors == 6

RiskEntries(n) == [i \in 1..n |-> "risk factor"]

Scorecards ==
    {[fundamental_score |-> f, technical_score |-> t, sentiment_score |-> s,
      forecast_score |-> c, strengths |-> <<>>, weaknesses |-> <<>>,
      risk_factors |-> RiskEntries(n)] :
        f \in {30, 50, 70, 80}, t \in {25, 50, 75},
        s \in {15, 16, 30, 31, 35, 36, 50, 51, 105, 106},
        c \in {20, 50, 80}, n \in 0..MaxRiskFactors}

InitRec ==
    /\ state \in {[initial_state(symbol) EXCEPT !.synthesis = sc,
                                                !.workflow_stage = "synthesis_complete"] :
                    symbol \in Symbols, sc \in Scorecards}
    /\ pc = "recommendation"
    /\ trace = <<>>
    /\ result = NoResult
    /\ api = NoRequest
    /\ records = <<>>
    /\ runs = <<>>

NextRec == Recommendation

SpecRec == InitRec /\ [][NextRec]_vars

(***************************************************************************)
(* analyze_stock as one call: what the collaborators do during the run is   *)
(* drawn beforehand (an environment) and the graph is walked to its end.   *)
(***************************************************************************)
\* one run's environment: the result every producer returns, the state of
\* the insight generator and the evaluator, and whether something inside the
\* try block raises
EnvAllOk ==
    [market_data |-> [agent |-> "Market Data Expert", pe_ratio |-> <<10>>,
                      profit_margin |-> <<30>>],
     technical |-> [agent |-> "Technical Expert", trend |-> "strong_uptrend", rsi |-> 50],
     quantitative |-> [agent |-> "Quantitative Expert", risk_level |-> "Medium"],
     sentiment |-> [agent |-> "Sentiment Expert", sentiment_score |-> 70],
     sector |-> [agent |-> "Sector Expert", sector |-> "Technology"],
     forecast |-> [agent |-> "Prophet Forecast Expert", expected_change_percent |-> 10,
                   confidence_score |-> 70],
     gem |-> [available |-> TRUE, model_ok |-> TRUE, outcome |-> "text"],
     ev |-> [available |-> TRUE, raises |-> FALSE, form |-> "plain",
             object |-> [quality_score |-> 85, needs_improvement |-> FALSE,
                         improvement_areas |-> <<>>,
                         strengths |-> <<"comprehensive data">>,
                         explanation |-> "brief explanation"]],
     fault |-> FALSE]

EnvAllFailed ==
    [market_data |-> [error |-> "Market data fetch failed"],
     technical |-> [error |-> "No historical data"],
     quantitative |-> [error |-> "Insufficient data"],
     sentiment |-> [error |-> "Sentiment analysis failed"],
     sector |-> [error |-> "Sector analysis failed"],
     forecast |-> [error |-> "Prophet not available",
                   message |-> "Install prophet: pip install prophet"],
     gem |-> [available |-> FALSE, model_ok |-> FALSE, outcome |-> "text"],
     ev |-> [available |-> TRUE, raises |-> FALSE, form |-> "fenced",
             object |-> [quality_score |-> 40, needs_improvement |-> TRUE,
                         improvement_areas |-> <<"data coverage", "forecast confidence">>]],
     fault |-> FALSE]

EnvFault == [EnvAllOk EXCEPT !.fault = TRUE]

Environments == {EnvAllOk, EnvAllFailed, EnvFault}

\* workflow.add_node(name, function): the function behind each node
node_function(node, st, env) ==
    CASE node = "market_data" -> market_data_node(st, env.market_data)
      [] node = "technical" -> technical_analysis_node(st, env.technical)
      [] node = "quantitative" -> quantitative_analysis_node(st, env.quantitative)
      [] node = "sentiment" -> sentiment_analysis_node(st, env.sentiment)
      [] node = "sector" -> sector_analysis_node(st, env.sector)
      [] node = "forecast" -> forecast_analysis_node(st, env.forecast)
      [] node = "synthesis" -> synthesis_node(st)
      [] node = "recommendation" -> recommendation_node(st, env.gem)
      [] node = "evaluation" -> evaluation_node(st, env.ev)
      [] node = "improvement" -> improvement_node(st)

node_raises(node, st) ==
    \/ node = "synthesis" /\ synthesis_raises(st)
    \/ node = "recommendation" /\ recommendation_raises(st)

\* the node the graph goes to once node has returned newState
next_node(node, newState) ==
    IF node = "evaluation" THEN ConditionalEdge(newState) ELSE Edge(node)

Raised == [raised |-> TRUE]

\* app.invoke: run the graph from node on st to END; Raised when a node raises
RECURSIVE invoke(_, _, _)
invoke(node, st, env) ==
    IF node = END THEN st
    ELSE IF node_raises(node, st) THEN Raised
    ELSE LET newState == node_function(node, st, env)
         IN invoke(next_node(node, newState), newState, env)

analyze_stock(symbol, env) ==
    IF env.fault
    THEN ErrorReport(symbol)
    ELSE LET final_state == invoke(EntryPoint, initial_state(symbol), env)
         IN IF final_state = Raised
            THEN ErrorReport(symbol)
            ELSE FullReport(symbol, final_state)

(***************************************************************************)
(* The HTTP endpoints (src/api/routes.py).  An identifier is a sequence of  *)
(* characters, so that upper-casing and trimming are computed.             *)
(***************************************************************************)
UpperChar(c) ==
    CASE c = "a" -> "A"
      [] c = "b" -> "B"
      [] c = "c" -> "C"
      [] OTHER -> c

\* str.upper()
upper(s) == [i \in 1..Len(s) |-> UpperChar(s[i])]

IsSpace(c) == c = " "

RECURSIVE lstrip(_)
lstrip(s) == IF s # <<>> /\ IsSpace(Head(s)) THEN lstrip(Tail(s)) ELSE s

RECURSIVE rstrip(_)
rstrip(s) ==
    IF s # <<>> /\ IsSpace(s[Len(s)]) THEN rstrip(SubSeq(s, 1, Len(s) - 1)) ELSE s

\* str.strip()
strip(s) == rstrip(lstrip(s))

\* symbol.upper().strip()
normalize(symbol) == strip(upper(symbol))

\* the identifiers a client may send: "a", "A ", " b", "c" and " "
RawIdentifiers == {<<"a">>, <<"A", " ">>, <<" ", "b">>, <<"c">>, <<" ">>}

MaxBatch == 3

\* len(request.symbols) > 10 is refused
MaxSymbolsPerBatch == 10

\* a list of n identifiers, "a" and "c" in turn
LongRequest(n) == [i \in 1..n |-> IF i % 2 = 1 THEN <<"a">> ELSE <<"c">>]

\* the symbol lists a client may send: every list of up to MaxBatch
\* identifiers, the longest list that is accepted and one that is one
\* identifier too long
BatchRequests ==
    UNION {[1..n -> RawIdentifiers] : n \in 0..MaxBatch}
    \cup {LongRequest(MaxSymbolsPerBatch), LongRequest(MaxSymbolsPerBatch + 1)}

\* the environments the runs of a batch may meet, one per identifier: any
\* combination for a short list, the same one throughout for a long list
BatchEnvironments(symbols) ==
    IF Len(symbols) <= MaxBatch
    THEN [1..Len(symbols) -> Environments]
    ELSE {[i \in 1..Len(symbols) |-> env] : env \in Environments}

\* variant: an error report is not stored
store_result_skipping_errors(results, symbol, res) ==
    IF "error" \in DOMAIN res THEN results ELSE SetKey(results, symbol, res)

\* results[symbol] = result
store_result(results, symbol, res) == SetKey(results, symbol, res)

\* the for loop of analyze_batch from position i on; acc.results is the
\* results dict, acc.calls the analyze_stock calls made so far
RECURSIVE batch_loop(_, _, _, _)
batch_loop(symbols, envs, i, acc) ==
    IF i > Len(symbols) THEN acc
    ELSE LET symbol == normalize(symbols[i])
             res == analyze_stock(symbol, envs[i])
         IN batch_loop(symbols, envs, i + 1,
                       [results |-> store_result(acc.results, symbol, res),
                        calls |-> Append(acc.calls, [symbol |-> symbol, env |-> envs[i]])])

BatchAccepted(symbols) == symbols # <<>> /\ ~(Len(symbols) > MaxSymbolsPerBatch)

\* variant: a list of exactly the maximum length is refused as well
analyze_batch_refusing_ten(symbols, envs) ==
    IF symbols = <<>>
    THEN [endpoint |-> "batch", request |-> symbols, calls |-> <<>>,
          response |-> [status |-> 400, detail |-> "Symbols list cannot be empty"]]
    ELSE IF Len(symbols) >= MaxSymbolsPerBatch
    THEN [endpoint |-> "batch", request |-> symbols, calls |-> <<>>,
          response |-> [status |-> 400, detail |-> "Maximum 10 symbols allowed per batch"]]
    ELSE LET done == batch_loop(symbols, envs, 1, [results |-> <<>>, calls |-> <<>>])
         IN [endpoint |-> "batch", request |-> symbols, calls |-> done.calls,
             response |-> [status |-> 200,
                           total_analyzed |-> Cardinality(DOMAIN done.results),
                           results |-> done.results]]

analyze_batch(symbols, envs) ==
    IF symbols = <<>>
    THEN [endpoint |-> "batch", request |-> symbols, calls |-> <<>>,
          response |-> [status |-> 400, detail |-> "Symbols list cannot be empty"]]
    ELSE IF Len(symbols) > MaxSymbolsPerBatch
    THEN [endpoint |-> "batch", request |-> symbols, calls |-> <<>>,
          response |-> [status |-> 400, detail |-> "Maximum 10 symbols allowed per batch"]]
    ELSE LET done == batch_loop(symbols, envs, 1, [results |-> <<>>, calls |-> <<>>])
         IN [endpoint |-> "batch", request |-> symbols, calls |-> done.calls,
             response |-> [status |-> 200,
                           total_analyzed |-> Cardinality(DOMAIN done.results),
                           results |-> done.results]]

analyze_single_stock(raw, env) ==
    LET symbol == normalize(raw)
        res == analyze_stock(symbol, env)
    IN IF symbol = <<>>
       THEN [endpoint |-> "single", request |-> raw, calls |-> <<>>,
             response |-> [status |-> 400, detail |-> "Symbol cannot be empty"]]
       ELSE IF "error" \in DOMAIN res
       THEN [endpoint |-> "single", request |-> raw,
             calls |-> <<[symbol |-> symbol, env |-> env]>>,
             response |-> [status |-> 500, detail |-> res.error]]
       ELSE [endpoint |-> "single", request |-> raw,
             calls |-> <<[symbol |-> symbol, env |-> env]>>,
             response |-> [status |-> 200, body |-> res]]

InitApi ==
    /\ state = None
    /\ pc = "idle"
    /\ trace = <<>>
    /\ result = NoResult
    /\ api = NoRequest
    /\ records = <<>>
    /\ runs = <<>>

\* POST /analyze/batch: envs[i] is the environment of the i-th run
AnalyzeBatch ==
    /\ api = NoRequest
    /\ \E symbols \in BatchRequests :
          \E envs \in BatchEnvironments(symbols) :
              api' = analyze_batch(symbols, envs)
    /\ UNCHANGED <<state, pc, trace, result, records, runs>>

\* POST /analyze/{symbol}
AnalyzeSingle ==
    /\ api = NoRequest
    /\ \E raw \in RawIdentifiers, env \in Environments :
          api' = analyze_single_stock(raw, env)
    /\ UNCHANGED <<state, pc, trace, result, records, runs>>

NextApi ==
    \/ AnalyzeBatch
    \/ AnalyzeSingle

SpecApi == InitApi /\ [][NextApi]_vars

(***************************************************************************)
(* Several analyze_stock calls in flight at once.  records is the heap of   *)
(* Run Records, runs[r] the call r: its argument, its environment, the     *)
(* node it is about to run and what it returned.  runs[r].overlapped       *)
(* remembers that r took a step while another call was in flight.          *)
(***************************************************************************)
NumRuns == 2

RunIds == 1..NumRuns

\* what a call is made with: the symbol and the environment it will meet
Invocations ==
    {[symbol |-> "AAPL", env |-> EnvAllOk],
     [symbol |-> "MSFT", env |-> EnvAllFailed],
     [symbol |-> "MSFT", env |-> EnvFault]}

\* variant: every call works on the same dict
RecordOfShared(r) == 1

\* the dict that call r builds as initial_state and hands to app.invoke
RecordOf(r) == r

InFlight(r) == runs[r].pc \notin {"start", "returned"}

OthersInFlight(r) == \E q \in RunIds \ {r} : InFlight(q)

InitRuns ==
    /\ state = None
    /\ pc = "idle"
    /\ trace = <<>>
    /\ result = NoResult
    /\ api = NoRequest
    /\ records = <<>>
    /\ runs \in [RunIds -> {[symbol |-> inv.symbol, env |-> inv.env, pc |-> "start",
                             result |-> NoResult, overlapped |-> FALSE] :
                               inv \in Invocations}]

\* the call builds its initial_state
RunStart(r) ==
    /\ runs[r].pc = "start"
    /\ records' = SetKey(records, RecordOf(r), initial_state(runs[r].symbol))
    /\ runs' = [runs EXCEPT ![r].pc = EntryPoint,
                            ![r].overlapped = @ \/ OthersInFlight(r)]
    /\ UNCHANGED <<state, pc, trace, result, api>>

\* the graph runs the call's next node on the call's record
RunStep(r) ==
    /\ runs[r].pc \in Nodes
    /\ ~node_raises(runs[r].pc, records[RecordOf(r)])
    /\ LET newState == node_function(runs[r].pc, records[RecordOf(r)], runs[r].env)
       IN /\ records' = [records EXCEPT ![RecordOf(r)] = newState]
          /\ runs' = [runs EXCEPT ![r].pc = next_node(runs[r].pc, newState),
                                  ![r].overlapped = @ \/ OthersInFlight(r)]
    /\ UNCHANGED <<state, pc, trace, result, api>>

\* app.invoke returned: the call returns the full report
RunReturn(r) ==
    /\ runs[r].pc = END
    /\ ~runs[r].env.fault
    /\ runs' = [runs EXCEPT ![r].pc = "returned",
                            ![r].result = FullReport(runs[r].symbol, records[RecordOf(r)])]
    /\ UNCHANGED <<state, pc, trace, result, api, records>>

\* something raised inside the try block: the call returns the error report
RunFail(r) ==
    /\ runs[r].pc \in Nodes \cup {END}
    /\ \/ runs[r].env.fault
       \/ node_raises(runs[r].pc, records[RecordOf(r)])
    /\ runs' = [runs EXCEPT ![r].pc = "returned",
                            ![r].result = ErrorReport(runs[r].symbol)]
    /\ UNCHANGED <<state, pc, trace, result, api, records>>

NextRuns ==
    \E r \in RunIds :
        \/ RunStart(r)
        \/ RunStep(r)
        \/ RunReturn(r)
        \/ RunFail(r)

SpecRuns == InitRuns /\ [][NextRuns]_vars

(***************************************************************************)
(* synthesis_node and recommendation_node on a wide choice of slots: the     *)
(* four slots synthesis reads are drawn around every threshold it tests,    *)
(* with and without a failure marker, and the two nodes are applied.        *)
(***************************************************************************)
\* a failure marker alone, a failure marker next to ordinary fields, and
\* P/E ratios and margins (in hundredths) on both sides of 15, 30 and 0.2
MarketDataSlots ==
    {[error |-> "Market data fetch failed"],
     [error |-> "Market data fetch failed", pe_ratio |-> <<10>>, profit_margin |-> <<30>>]}
    \cup {[agent |-> "Market Data Expert", pe_ratio |-> pe, profit_margin |-> pm] :
            pe \in {<<>>, <<10>>, <<15>>, <<30>>, <<31>>}, pm \in {<<20>>, <<21>>}}

TechnicalSlots ==
    {[error |-> "No historical data"],
     [error |-> "No historical data", trend |-> "downtrend", rsi |-> 80]}
    \cup {[agent |-> "Technical Expert", trend |-> trend, rsi |-> rsi] :
            trend \in {"strong_uptrend", "neutral", "downtrend"}, rsi \in {29, 50, 71}}

SentimentSlots ==
    {[error |-> "Sentiment analysis failed"],
     [error |-> "Sentiment analysis failed", sentiment_score |-> 10]}
    \cup {[agent |-> "Sentiment Expert", sentiment_score |-> s] :
            s \in {0, 39, 40, 60, 61, 100, 300}}

ForecastSlots ==
    {[error |-> "Prophet not available", message |-> "Install prophet: pip install prophet"],
     [error |-> "Forecast failed", expected_change_percent |-> -10, confidence_score |-> 70],
     [agent |-> "Prophet Forecast Expert"]}
    \cup {[agent |-> "Prophet Forecast Expert", expected_change_percent |-> change,
           confidence_score |-> confidence] :
            change \in {-6, -5, 5, 6}, confidence \in {60, 61}}

\* the record as the six producer nodes leave it
AfterProducers(symbol, m, t, q, s, c, f) ==
    forecast_analysis_node(
        sector_analysis_node(
            sentiment_analysis_node(
                quantitative_analysis_node(
                    technical_analysis_node(
                        market_data_node(initial_state(symbol), m), t), q), s), c), f)

InitSynth ==
    /\ state \in {AfterProducers(symbol, m, t,
                                 [agent |-> "Quantitative Expert", risk_level |-> "Medium"],
                                 s, [agent |-> "Sector Expert", sector |-> "Technology"], f) :
                    symbol \in Symbols, m \in MarketDataSlots, t \in TechnicalSlots,
                    s \in SentimentSlots, f \in ForecastSlots}
    /\ pc = "synthesis"
    /\ trace = <<>>
    /\ result = NoResult
    /\ api = NoRequest
    /\ records = <<>>
    /\ runs = <<>>

NextSynth ==
    \/ Synthesis
    \/ Recommendation

SpecSynth == InitSynth /\ [][NextSynth]_vars

(***************************************************************************)
(* Properties                                                              *)
(***************************************************************************)
StageOrder ==
    <<"market_data", "technical", "quantitative", "sentiment", "sector",
      "forecast", "synthesis", "recommendation", "evaluation">>

\* analyze_stock has returned the full report, not the error report
Completed == pc = "returned" /\ "error" \notin DOMAIN result

ImprovementRan == \E i \in DOMAIN trace : trace[i] = "improvement"

SlotNames ==
    <<"market_data", "technical_analysis", "quantitative_analysis",
      "sentiment_analysis", "sector_analysis", "forecast_analysis">>

StageTags ==
    <<"Market Data", "Technical", "Quantitative", "Sentiment", "Sector", "Forecast">>

\* C1: the nodes that have run are always an initial part of the order market
\* data, technical, quantitative, sentiment, sector, forecast, synthesis,
\* recommendation, evaluation (so none runs before its turn, none is passed
\* over and none runs twice), and a run that returns the full report has run
\* all nine.
C1_StagesInOrder ==
    /\ \A i \in DOMAIN trace : i <= Len(StageOrder) => trace[i] = StageOrder[i]
    /\ \A i, j \in DOMAIN trace : trace[i] = trace[j] => i = j
    /\ (pc = END \/ Completed) => Len(trace) >= Len(StageOrder)

C1_Witness ==
    Completed /\ trace = StageOrder

\* C2: the step out of evaluation enters improvement exactly when the record's
\* needs_improvement is true and otherwise ends the graph; improvement runs at
\* most once, and the step out of improvement ends the graph.
C2_ImprovementBranch ==
    [][ /\ (pc = "evaluation" /\ trace' # trace) =>
              /\ pc' = "improvement" <=> state'.needs_improvement = TRUE
              /\ pc' = END <=> state'.needs_improvement # TRUE
        /\ (pc = "improvement" /\ trace' # trace) => pc' = END
        /\ pc = END => pc' = "returned"
        /\ Cardinality({i \in DOMAIN trace' : trace'[i] = "improvement"}) <= 1
      ]_vars

C2_Witness ==
    /\ pc = END
    /\ state.needs_improvement = TRUE
    /\ trace = StageOrder \o <<"improvement">>

\* C3: whatever mix of results and failure markers the six producers return,
\* the run is never stuck or forced into the except clause (a graph step or
\* the normal return is always possible), it returns, and a run returned
\* without an exception has run all nine stages and reports all six slots,
\* the synthesis, the recommendation and the evaluation.
C3_FailureDoesNotAbort ==
    /\ [](pc \in Nodes \cup {END} => ENABLED <<NormalStep>>_vars)
    /\ [](Completed =>
            /\ SubSeq(trace, 1, Len(StageOrder)) = StageOrder
            /\ \A k \in DOMAIN SlotNames : result[SlotNames[k]] # None
            /\ result.synthesis # None
            /\ result.recommendation # None
            /\ result.evaluation # None)
    /\ <>(pc = "returned")

C3_Witness ==
    /\ Completed
    /\ \A k \in DOMAIN SlotNames : "error" \in DOMAIN result[SlotNames[k]]
    /\ result.recommendation # None

\* the errors a record should hold given its first n slots: one tagged entry
\* per slot carrying a failure marker, in stage order
RECURSIVE C4_Expected(_, _)
C4_Expected(rec, n) ==
    IF n = 0 THEN <<>>
    ELSE LET slot == rec[SlotNames[n]]
         IN C4_Expected(rec, n - 1) \o
            (IF slot # None /\ "error" \in DOMAIN slot
             THEN <<[stage |-> StageTags[n], message |-> slot.error]>>
             ELSE <<>>)

\* C4: when the run has completed, the errors list of the record, and the one
\* in the returned report, is exactly one stage-tagged entry per producer slot
\* carrying a failure marker, in stage order, and nothing else.
C4_ErrorsMatchFailures ==
    /\ pc = END => state.errors = C4_Expected(state, Len(SlotNames))
    /\ Completed =>
          /\ result.errors = C4_Expected(result, Len(SlotNames))
          /\ result.errors = state.errors

C4_Witness ==
    /\ Completed
    /\ Len(result.errors) = 1
    /\ Cardinality({k \in DOMAIN SlotNames : "error" \in DOMAIN result[SlotNames[k]]}) = 1

RecommendationMade == state.recommendation # None

\* C8: the class is decided by the overall score alone, through strict
\* thresholds read from the top: above 0.70 STRONG BUY, else above 0.60 BUY,
\* else above 0.45 HOLD, else above 0.35 SELL, else STRONG SELL; a score on a
\* threshold gets the lower class (and so a higher score never gets a lower
\* class).
C8_ClassByThreshold ==
    RecommendationMade =>
        LET score == state.recommendation.overall_score
            class == state.recommendation.recommendation
        IN /\ score > 7000 => class = "STRONG BUY"
           /\ (6000 < score /\ score <= 7000) => class = "BUY"
           /\ (4500 < score /\ score <= 6000) => class = "HOLD"
           /\ (3500 < score /\ score <= 4500) => class = "SELL"
           /\ score <= 3500 => class = "STRONG SELL"

C8_Witness ==
    /\ RecommendationMade
    /\ state.recommendation.overall_score = 7000
    /\ state.recommendation.recommendation = "BUY"

\* C9: the risk level is decided by the number of risk-factor entries alone:
\* none LOW, one or two MEDIUM, three or four HIGH, five or more VERY HIGH.
C9_RiskByCount ==
    RecommendationMade =>
        LET n == Len(state.synthesis.risk_factors)
            level == state.recommendation.risk_level
        IN /\ n = 0 => level = "LOW"
           /\ n \in {1, 2} => level = "MEDIUM"
           /\ n \in {3, 4} => level = "HIGH"
           /\ n >= 5 => level = "VERY HIGH"

C9_Witness ==
    /\ RecommendationMade
    /\ Len(state.synthesis.risk_factors) = 5
    /\ state.recommendation.risk_level = "VERY HIGH"

\* C10: the horizon is long-term exactly when the overall score is above 0.65
\* and the risk level is LOW or MEDIUM; otherwise medium-term when the score is
\* above 0.50; otherwise short-term-or-avoid.
C10_HorizonRule ==
    RecommendationMade =>
        LET score == state.recommendation.overall_score
            level == state.recommendation.risk_level
            horizon == state.recommendation.investment_horizon
            long == score > 6500 /\ level \in {"LOW", "MEDIUM"}
        IN /\ horizon = "Long-term (1+ years)" <=> long
           /\ horizon = "Medium-term (3-12 months)" <=> (~long /\ score > 5000)
           /\ horizon = "Short-term or avoid" <=> (~long /\ score <= 5000)

C10_Witness ==
    /\ RecommendationMade
    /\ state.recommendation.overall_score > 6500
    /\ state.recommendation.risk_level \in {"HIGH", "VERY HIGH"}
    /\ state.recommendation.investment_horizon = "Medium-term (3-12 months)"

AllSlotsFailed ==
    \A k \in DOMAIN SlotNames : "error" \in DOMAIN state[SlotNames[k]]

\* C11: when all six producer slots carry a failure marker, synthesis writes
\* the four scores at 0.5 with empty strengths, weaknesses and risk_factors,
\* and the recommendation is HOLD with overall score 0.5.
C11_AllFailedIsNeutralHold ==
    AllSlotsFailed =>
        /\ state.synthesis # None =>
              state.synthesis =
                  [fundamental_score |-> 50, technical_score |-> 50,
                   sentiment_score |-> 50, forecast_score |-> 50,
                   strengths |-> <<>>, weaknesses |-> <<>>, risk_factors |-> <<>>]
        /\ state.recommendation # None =>
              /\ state.recommendation.recommendation = "HOLD"
              /\ state.recommendation.overall_score = 5000

C11_Witness ==
    /\ AllSlotsFailed
    /\ state.synthesis # None
    /\ state.recommendation # None
    /\ state.recommendation.recommendation = "HOLD"

\* the evaluation came from the fallback paths of the evaluator: no LLM
\* configured, the call raised, or no object could be parsed from the answer
EvaluatorFellBack ==
    /\ state.evaluation # None
    /\ \/ state.evaluation.available = FALSE
       \/ Get(state.evaluation, "explanation", "") = "Failed to parse evaluation response"

\* C12: when the evaluator is not configured, raises, or answers with text no
\* object can be parsed from, the evaluation and the record carry quality_score
\* 0.5, needs_improvement false and no improvement areas, the run does not
\* fail, and it ends without running the improvement stage.
C12_EvaluatorFallback ==
    EvaluatorFellBack =>
        /\ state.evaluation.quality_score = 50
        /\ state.evaluation.needs_improvement = FALSE
        /\ state.evaluation.improvement_areas = <<>>
        /\ state.quality_score = 50
        /\ state.needs_improvement = FALSE
        /\ state.improvement_areas = <<>>
        /\ ~ImprovementRan
        /\ pc \in {END, "returned"}

C12_Witness ==
    /\ Completed
    /\ EvaluatorFellBack
    /\ "error" \in DOMAIN state.evaluation
    /\ ~ImprovementRan

\* C13: the improvement step marks the recommendation improved, attaches the
\* record's improvement_areas in the same order, and leaves every field the
\* recommendation already had (class, overall score, risk level, horizon,
\* component scores, ...) and the record's improvement_areas as they were; a
\* completed run whose needs_improvement is true returns such a
\* recommendation.
C13_ImprovementAnnotatesOnly ==
    /\ [][(pc = "improvement" /\ trace' # trace) =>
            /\ state'.recommendation.improved = TRUE
            /\ state'.recommendation.improvement_areas_addressed = state.improvement_areas
            /\ state'.improvement_areas = state.improvement_areas
            /\ \A k \in DOMAIN state.recommendation :
                   state'.recommendation[k] = state.recommendation[k]
            /\ DOMAIN state'.recommendation =
                   DOMAIN state.recommendation \cup {"improved", "improvement_areas_addressed"}
          ]_vars
    /\ [](Completed /\ state.needs_improvement = TRUE =>
            /\ result.recommendation.improved = TRUE
            /\ result.recommendation.improvement_areas_addressed = result.improvement_areas
            /\ result.improvement_areas = result.evaluation.improvement_areas)

C13_Witness ==
    /\ Completed
    /\ result.needs_improvement = TRUE
    /\ Len(result.improvement_areas) = 2
    /\ result.recommendation.improved = TRUE
    /\ Len(result.recommendation.improvement_areas_addressed) = 2

\* C14 as stated: in every reachable state and in every returned full report
\* quality_score lies in [0,1], whatever the evaluator's answer carries.
C14_QualityInUnitRange ==
    /\ 0 <= state.quality_score /\ state.quality_score <= 100
    /\ Completed => (0 <= result.quality_score /\ result.quality_score <= 100)

\* how many times a node has run; synthesis, recommendation and evaluation
\* are assigned by their own node, once each time it runs
TimesRun(node) == Cardinality({i \in DOMAIN trace : trace[i] = node})

\* C15: synthesis is set only when all six producer slots are populated,
\* recommendation only when synthesis is set, evaluation only when
\* recommendation is set; each of the three is set exactly when its node has
\* run, no such node runs twice, and a completed run has run each once.
C15_WriteOnceInOrder ==
    /\ state.synthesis # None =>
          \A k \in DOMAIN SlotNames : state[SlotNames[k]] # None
    /\ state.recommendation # None => state.synthesis # None
    /\ state.evaluation # None => state.recommendation # None
    /\ \A node \in {"synthesis", "recommendation", "evaluation"} :
          /\ state[node] # None <=> TimesRun(node) = 1
          /\ TimesRun(node) <= 1
          /\ Completed => TimesRun(node) = 1

C15_Witness ==
    /\ Completed
    /\ ImprovementRan
    /\ state.evaluation # None
    /\ TimesRun("synthesis") = 1
    /\ TimesRun("recommendation") = 1
    /\ TimesRun("evaluation") = 1

\* analyze_stock has returned from its except clause
Failed == pc = "returned" /\ "error" \in DOMAIN result

\* C16: a run cut short by an exception, wherever it was raised, returns a
\* report made of exactly the identifier, the error message and a timestamp:
\* no producer slot, synthesis, recommendation, evaluation or errors field of
\* the partial record is in it.
C16_ErrorReportIsMinimal ==
    Failed =>
        /\ DOMAIN result = {"error", "symbol", "timestamp"}
        /\ result.symbol = state.symbol

C16_Witness ==
    /\ Failed
    /\ trace = SubSeq(StageOrder, 1, 7)
    /\ state.synthesis # None
    /\ Len(state.errors) > 0

\* C18 as stated: when the insight generator is unavailable or fails, the
\* insight text stored in the recommendation is the empty string, nothing is
\* added to errors, and the run goes on to evaluation.
C18_Original ==
    [][\A gem \in GeminiInputs :
          (/\ pc = "recommendation"
           /\ state' = recommendation_node(state, gem)
           /\ (~gem.available \/ ~gem.model_ok \/ gem.outcome = "raise")) =>
              /\ state'.recommendation.ai_insights = ""
              /\ state'.errors = state.errors
              /\ pc' = "evaluation"
      ]_vars

\* C18 amended: when the insight generator is unavailable the insight text is
\* the empty string; when the generation call raises, the insight text is the
\* message "Insights generation failed: ..."; either way nothing is added to
\* errors and the run goes on to evaluation.
C18_InsightBestEffort ==
    [][\A gem \in GeminiInputs :
          (/\ pc = "recommendation"
           /\ state' = recommendation_node(state, gem)) =>
              /\ (~gem.available \/ ~gem.model_ok) =>
                     state'.recommendation.ai_insights = ""
              /\ (gem.available /\ gem.model_ok /\ gem.outcome = "raise") =>
                     state'.recommendation.ai_insights =
                         "Insights generation failed: <exception>"
              /\ state'.errors = state.errors
              /\ pc' = "evaluation"
      ]_vars

C18_Witness ==
    /\ Completed
    /\ result.recommendation.ai_insights = "Insights generation failed: <exception>"
    /\ result.evaluation # None

\* the batch endpoint has answered a request it accepted
BatchAnswered ==
    /\ api # NoRequest
    /\ api.endpoint = "batch"
    /\ api.response.status = 200

\* no two identifiers of the request are the same after upper-casing and trimming
DistinctIdentifiers(symbols) ==
    \A i, j \in DOMAIN symbols :
        i # j => normalize(symbols[i]) # normalize(symbols[j])

\* C17: for an accepted batch of distinct identifiers the result mapping has
\* exactly one entry per requested identifier, a full report where the run
\* completed and an error entry where it failed fatally, and every identifier
\* of the request is analyzed whatever happened to the ones before it.
C17_BatchHasEveryEntry ==
    (BatchAnswered /\ DistinctIdentifiers(api.request)) =>
        LET symbols == api.request
            results == api.response.results
        IN /\ DOMAIN results = {normalize(symbols[i]) : i \in DOMAIN symbols}
           /\ api.response.total_analyzed = Len(symbols)
           /\ Len(api.calls) = Len(symbols)
           /\ \A i \in DOMAIN symbols :
                 LET symbol == normalize(symbols[i])
                 IN /\ api.calls[i].symbol = symbol
                    /\ results[symbol].symbol = symbol
                    /\ IF api.calls[i].env.fault
                       THEN /\ "error" \in DOMAIN results[symbol]
                            /\ "recommendation" \notin DOMAIN results[symbol]
                       ELSE /\ "error" \notin DOMAIN results[symbol]
                            /\ results[symbol] = analyze_stock(symbol, api.calls[i].env)
                            /\ results[symbol].recommendation # None

\* three distinct identifiers, the second of which fails fatally
C17_Witness ==
    /\ BatchAnswered
    /\ DistinctIdentifiers(api.request)
    /\ Len(api.request) = 3
    /\ ~api.calls[1].env.fault
    /\ api.calls[2].env.fault
    /\ ~api.calls[3].env.fault
    /\ Cardinality(DOMAIN api.response.results) = 3
    /\ "error" \in DOMAIN api.response.results[api.calls[2].symbol]
    /\ "error" \notin DOMAIN api.response.results[api.calls[3].symbol]

\* C20: analyze_stock is only ever called with an upper-cased, trimmed,
\* non-empty identifier, whichever endpoint makes the call.
C20_OnlyNonEmptyIdentifiers ==
    api # NoRequest =>
        \A i \in DOMAIN api.calls :
            /\ api.calls[i].symbol # <<>>
            /\ api.calls[i].symbol = normalize(api.calls[i].symbol)

\* call r has returned
Returned(r) == runs # <<>> /\ runs[r].pc = "returned"

\* C19: however the calls in flight are interleaved, the report each call
\* returns is the report the same call returns when it runs alone with the
\* same producer, insight and evaluator results.
C19_RunsDoNotInterfere ==
    \A r \in DOMAIN runs :
        Returned(r) => runs[r].result = analyze_stock(runs[r].symbol, runs[r].env)

\* two calls that overlapped, met different environments and both returned a
\* full report
C19_Witness ==
    /\ runs # <<>>
    /\ Returned(1) /\ Returned(2)
    /\ runs[1].overlapped /\ runs[2].overlapped
    /\ runs[1].env # runs[2].env
    /\ "error" \notin DOMAIN runs[1].result
    /\ "error" \notin DOMAIN runs[2].result
    /\ runs[1].result.errors # runs[2].result.errors

\* the batch endpoint has answered
BatchHandled == api # NoRequest /\ api.endpoint = "batch"

\* C21: a batch request with no identifier or with more than 10 identifiers
\* is answered with a client error and no identifier is analyzed; a request
\* with 1 to 10 identifiers is accepted and each of its identifiers is
\* analyzed, in the order of the request.
C21_BatchSizeLimits ==
    BatchHandled =>
        IF Len(api.request) = 0 \/ Len(api.request) > 10
        THEN /\ api.response.status = 400
             /\ api.calls = <<>>
             /\ "results" \notin DOMAIN api.response
        ELSE /\ api.response.status = 200
             /\ Len(api.calls) = Len(api.request)
             /\ \A i \in DOMAIN api.request :
                   api.calls[i].symbol = normalize(api.request[i])

\* a request of exactly 10 identifiers was accepted and all 10 were analyzed
C21_Witness ==
    /\ BatchHandled
    /\ Len(api.request) = 10
    /\ api.response.status = 200
    /\ Len(api.calls) = 10

\* C30: for every accepted batch request, two identifiers that are equal
\* after upper-casing and trimming included, the result mapping has as many
\* entries as the request has identifiers, and total_analyzed is that number.
C30_TotalMatchesRequest ==
    BatchAnswered =>
        /\ Cardinality(DOMAIN api.response.results) = Len(api.request)
        /\ api.response.total_analyzed = Len(api.request)

\* the values of the stage marker in the order the graph writes them
StageMarkers ==
    <<"initialized", "market_data_complete", "technical_complete",
      "quantitative_complete", "sentiment_complete", "sector_complete",
      "forecast_complete", "synthesis_complete", "recommendation_complete",
      "evaluation_complete", "improvement_complete">>

StageRank(marker) == CHOOSE i \in DOMAIN StageMarkers : StageMarkers[i] = marker

\* the result slot of the stage whose marker has rank i + 1
StageSlots ==
    SlotNames \o <<"synthesis", "recommendation", "evaluation">>

SlotsPopulatedUpTo(st) ==
    \A i \in DOMAIN StageSlots :
        i + 1 <= StageRank(st.workflow_stage) => st[StageSlots[i]] # None

\* C22: the stage marker is always one of the markers of the fixed order; a
\* step either leaves it alone or moves it to the next marker of the order,
\* never back; and the slot of the stage it names, like the slot of every
\* stage before it, is populated.
C22_MarkerAdvancesAfterSlot ==
    /\ [](/\ state.workflow_stage \in {StageMarkers[i] : i \in DOMAIN StageMarkers}
          /\ SlotsPopulatedUpTo(state))
    /\ [][/\ StageRank(state'.workflow_stage) >= StageRank(state.workflow_stage)
          /\ StageRank(state'.workflow_stage) <= StageRank(state.workflow_stage) + 1
          /\ trace' # trace =>
                StageRank(state'.workflow_stage) = StageRank(state.workflow_stage) + 1
      ]_vars

C22_Witness ==
    /\ pc = END
    /\ state.workflow_stage = "improvement_complete"
    /\ \A i \in DOMAIN StageSlots : state[StageSlots[i]] # None
    /\ "error" \in DOMAIN state.market_data

VerdictFields == {"quality_score", "needs_improvement", "improvement_areas"}

\* C23: once evaluation is set, the record's top-level quality_score,
\* needs_improvement and improvement_areas equal the fields of the same name
\* inside evaluation, up to the end of the run and in the report that is
\* returned; the improvement stage changes neither the copies nor evaluation.
C23_VerdictCopiesAgree ==
    /\ [](/\ state.evaluation # None =>
                \A k \in VerdictFields : state[k] = state.evaluation[k]
          /\ Completed =>
                \A k \in VerdictFields : result[k] = result.evaluation[k])
    /\ [][(pc = "improvement" /\ pc' = END) =>
              /\ state'.evaluation = state.evaluation
              /\ \A k \in VerdictFields : state'[k] = state[k]
      ]_vars

C23_Witness ==
    /\ Completed
    /\ ImprovementRan
    /\ result.improvement_areas # <<>>
    /\ result.quality_score = 40
    /\ \A k \in VerdictFields : result[k] = result.evaluation[k]

ProducerSlots == {SlotNames[i] : i \in DOMAIN SlotNames}

\* C24: a step never changes the identifier, nor a producer slot, synthesis
\* or evaluation that is already written; the synthesis, recommendation and
\* evaluation stages change no producer slot and not the errors list; and a
\* recommendation that is already written changes only in the improvement
\* stage, which adds the improved flag and the list of improvement areas.
C24_WrittenOnce ==
    [][/\ state'.symbol = state.symbol
       /\ \A slot \in ProducerSlots \cup {"synthesis", "evaluation"} :
             state[slot] # None => state'[slot] = state[slot]
       /\ pc \in {"synthesis", "recommendation", "evaluation"} =>
             /\ \A slot \in ProducerSlots : state'[slot] = state[slot]
             /\ state'.errors = state.errors
       /\ state.recommendation # None =>
             \/ state'.recommendation = state.recommendation
             \/ /\ pc = "improvement"
                /\ state'.recommendation =
                      SetKey(SetKey(state.recommendation, "improved", TRUE),
                             "improvement_areas_addressed", state.improvement_areas)
      ]_vars

C24_Witness ==
    /\ pc = END
    /\ ImprovementRan
    /\ Len(state.errors) = 6
    /\ state.recommendation.improved
    /\ state.recommendation.improvement_areas_addressed # <<>>
    /\ state.synthesis # None

\* the narrative entries of a scorecard, whichever list they are in
Narrative(synthesis) ==
    {synthesis.strengths[i] : i \in DOMAIN synthesis.strengths}
    \cup {synthesis.weaknesses[i] : i \in DOMAIN synthesis.weaknesses}
    \cup {synthesis.risk_factors[i] : i \in DOMAIN synthesis.risk_factors}

\* the four scored domains: the slot, the score and the entries of each
ScoredDomains ==
    {[slot |-> "market_data", score |-> "fundamental_score",
      entries |-> {"Attractive P/E ratio", "High P/E ratio", "High profit margin"}],
     [slot |-> "technical_analysis", score |-> "technical_score",
      entries |-> {"Bullish trend", "Bearish trend", "RSI oversold - potential buy",
                   "RSI overbought"}],
     [slot |-> "sentiment_analysis", score |-> "sentiment_score",
      entries |-> {"Positive market sentiment", "Negative market sentiment"}],
     [slot |-> "forecast_analysis", score |-> "forecast_score",
      entries |-> {"Strong forecast", "Bearish forecast"}]}

\* C25: for each of the four scored domains, a slot with a failure marker
\* gives the score 0.5 exactly and no strength, weakness or risk-factor entry
\* of that domain, whatever else the slot carries and whatever the other
\* three slots hold.
C25_FailedSlotIsSkipped ==
    state.synthesis # None =>
        \A d \in ScoredDomains :
            "error" \in DOMAIN state[d.slot] =>
                /\ state.synthesis[d.score] = 50
                /\ Narrative(state.synthesis) \cap d.entries = {}

\* the sentiment slot failed while carrying a low score, the other three
\* domains succeeded and each contributed an entry
C25_Witness ==
    /\ state.synthesis # None
    /\ "error" \in DOMAIN state.sentiment_analysis
    /\ "sentiment_score" \in DOMAIN state.sentiment_analysis
    /\ state.synthesis.sentiment_score = 50
    /\ {"High P/E ratio", "RSI overbought", "Bearish forecast"}
           \subseteq Narrative(state.synthesis)

\* how many entries of list are the entry e
Count(list, e) == Cardinality({i \in DOMAIN list : list[i] = e})

ForecastSucceeded(st) == "error" \notin DOMAIN st.forecast_analysis

\* C26: when the forecast slot succeeded, the forecast score is 0.8 with one
\* strength entry if the expected change is above 5 and the confidence above
\* 0.6, 0.2 with one risk-factor entry if the expected change is below -5 and
\* the confidence above 0.6, and 0.5 with no entry otherwise; the forecast
\* score is never anything but 0.2, 0.5 or 0.8.
C26_ForecastScore ==
    state.synthesis # None =>
        LET forecast == state.forecast_analysis
            change == Get(forecast, "expected_change_percent", 0)
            confidence == Get(forecast, "confidence_score", 0)
            strong == Count(state.synthesis.strengths, "Strong forecast")
            bearish == Count(state.synthesis.risk_factors, "Bearish forecast")
            score == state.synthesis.forecast_score
        IN /\ score \in {20, 50, 80}
           /\ ForecastSucceeded(state) =>
                 IF change > 5 /\ confidence > 60
                 THEN score = 80 /\ strong = 1 /\ bearish = 0
                 ELSE IF change < -5 /\ confidence > 60
                 THEN score = 20 /\ strong = 0 /\ bearish = 1
                 ELSE score = 50 /\ strong = 0 /\ bearish = 0

\* a large expected fall at a confidence of exactly 0.6 leaves the score at 0.5
C26_Witness ==
    /\ state.synthesis # None
    /\ ForecastSucceeded(state)
    /\ "confidence_score" \in DOMAIN state.forecast_analysis
    /\ state.forecast_analysis.expected_change_percent = -6
    /\ state.forecast_analysis.confidence_score = 60
    /\ state.synthesis.forecast_score = 50

\* C28: synthesis lists at most 4 risk factors, at most one each of high P/E
\* ratio, overbought RSI, negative sentiment and bearish forecast, so the
\* recommendation of a run never has the risk level VERY HIGH.
C28_AtMostFourRisks ==
    /\ state.synthesis # None =>
          /\ Len(state.synthesis.risk_factors) <= 4
          /\ \A e \in {"High P/E ratio", "RSI overbought", "Negative market sentiment",
                       "Bearish forecast"} :
                Count(state.synthesis.risk_factors, e) <= 1
          /\ \A i \in DOMAIN state.synthesis.risk_factors :
                state.synthesis.risk_factors[i] \in
                    {"High P/E ratio", "RSI overbought", "Negative market sentiment",
                     "Bearish forecast"}
    /\ state.recommendation # None =>
          state.recommendation.risk_level # "VERY HIGH"

\* all four risk factors at once: the risk level is HIGH
C28_Witness ==
    /\ state.recommendation # None
    /\ Len(state.synthesis.risk_factors) = 4
    /\ state.recommendation.risk_level = "HIGH"

\* C29: in a run whose sentiment score lies in [0,1], an overall score above
\* 0.65 goes with at most 2 risk factors, so the horizon of every
\* recommendation with an overall score above 0.65, of every STRONG BUY in
\* particular, is the long-term one.
C29_HighScoreIsLongTerm ==
    (/\ state.recommendation # None
     /\ 0 <= state.synthesis.sentiment_score
     /\ state.synthesis.sentiment_score <= 100) =>
        /\ state.recommendation.overall_score > 6500 =>
              /\ Len(state.synthesis.risk_factors) <= 2
              /\ state.recommendation.investment_horizon = "Long-term (1+ years)"
        /\ state.recommendation.recommendation = "STRONG BUY" =>
              state.recommendation.investment_horizon = "Long-term (1+ years)"

\* an overall score above 0.65 with exactly 2 risk factors
C29_Witness ==
    /\ state.recommendation # None
    /\ state.synthesis.sentiment_score <= 100
    /\ state.recommendation.overall_score > 6500
    /\ Len(state.synthesis.risk_factors) = 2
    /\ state.recommendation.risk_level = "MEDIUM"
    /\ state.recommendation.investment_horizon = "Long-term (1+ years)"

\* what C27 speaks of in a recommendation: class, overall score, risk level,
\* horizon and the narrative lists
DecisionFields ==
    {"recommendation", "overall_score", "risk_level", "investment_horizon",
     "strengths", "weaknesses", "risk_factors"}

\* the record after synthesis and recommendation of a run that had the same
\* market, technical, sentiment and forecast slots as st but the quantitative
\* slot q, the sector slot c and the insight generator gem
OtherRun(st, q, c, gem) ==
    recommendation_node(
        synthesis_node(
            AfterProducers(st.symbol, st.market_data, st.technical_analysis, q,
                           st.sentiment_analysis, c, st.forecast_analysis)),
        gem)

\* C27: the scorecard and the recommendation's class, overall score, risk
\* level, horizon and narrative lists are the same in every run with the same
\* market, technical, sentiment and forecast slots, whatever the quantitative
\* slot, the sector slot and the insight generator's answer are.
C27_OnlyScoredSlotsMatter ==
    state.recommendation # None =>
        \A q \in QuantitativeResults, c \in SectorResults, gem \in GeminiInputs :
            LET other == OtherRun(state, q, c, gem)
            IN /\ other.synthesis = state.synthesis
               /\ \A k \in DecisionFields :
                     other.recommendation[k] = state.recommendation[k]

\* a run whose quantitative slot failed, whose sector slot succeeded and
\* whose insight text is the generator's answer, and another run that
\* differs from it in all three
C27_Witness ==
    /\ Completed
    /\ "error" \in DOMAIN state.quantitative_analysis
    /\ "error" \notin DOMAIN state.sector_analysis
    /\ state.recommendation.ai_insights = "<response.text>"
    /\ state.recommendation.recommendation = "STRONG BUY"
    /\ \E q \in QuantitativeResults, c \in SectorResults, gem \in GeminiInputs :
          LET other == OtherRun(state, q, c, gem)
          IN /\ other.quantitative_analysis # state.quantitative_analysis
             /\ other.sector_analysis # state.sector_analysis
             /\ other.recommendation.ai_insights # state.recommendation.ai_insights
             /\ other.recommendation.recommendation = "STRONG BUY"

====
